---- MODULE Spec2Model ----
(***************************************************************************)
(* WordPress export -> Markdown converter.                                 *)
(*                                                                         *)
(* Two parts of the repository are modelled:                               *)
(*   - the content filtering module (countWords, calculateTextToHtmlRatio, *)
(*     hasImages, isEmbedHeavy, isSystemGeneratedPage,                     *)
(*     analyzeContentQuality, shouldProcessPost), as operators over        *)
(*     strings, computed character by character as the regular             *)
(*     expressions of the code compute them;                               *)
(*   - processXmlFile of server/routes.ts: the SAX handlers onopentag,     *)
(*     onclosetag (an async function), ontext and oncdata, the counting    *)
(*     pass and the end of the run.                                        *)
(*                                                                         *)
(* Specifications:                                                         *)
(*   SpecClassify  isSystemGeneratedPage over a product of post fields     *)
(*   SpecFilter    shouldProcessPost / analyzeContentQuality over posts,   *)
(*                 bodies and all option combinations                      *)
(*   Spec          the token stream driving processXmlFile                 *)
(***************************************************************************)
EXTENDS Integers, Sequences, FiniteSets, TLC

VARIABLES
    \* ---- content filtering (SpecClassify, SpecFilter) ----
    fpost,          \* the post handed to the filtering functions
    fhtml,          \* the HTML body handed to them
    fopts,          \* the FilteringOptions handed to them, or Null
    fresult,        \* what the function under test returned, or Null
    fpc,            \* which function has been applied: "input", "classified", "analyzed", "decided"
    \* ---- POST /api/upload (SpecUpload) ----
    request,        \* the request: whether it carries a file, and its options field
    response,       \* the response sent, or Null
    \* ---- processXmlFile (Spec) ----
    options,        \* the options argument of processXmlFile
    currentPost,    \* let currentPost: any = null
    currentTag,     \* let currentTag = ''
    inItem,         \* let inItem = false
    inPostMeta,     \* let inPostMeta = false
    currentMetaKey,
    currentMetaValue,
    currentCategory,
    postCount,      \* let postCount = 0    (the counting pass's result)
    processedCount, \* let processedCount = 0
    pending,        \* the onclosetag calls suspended at an await, oldest first
    stored,         \* storage: the number of markdown posts created
    conversion,     \* storage: the conversion record [status, processedPosts, totalPosts]
    phase,          \* "idle", "counting", "parsing", "ended", "done"; after an error of
                    \* the token source "rejected", then "failed"
    \* ---- the token stream as delivered (history, not program state) ----
    path,           \* the elements now open in the document, outermost first
    span,           \* what the item span now open has delivered (the record it adds up
                    \* to and the fragments of its content:encoded, in order), or Null
    handed,         \* the call of shouldProcessPost the last step made, or Null
    stats,          \* counters over the tokens delivered so far
    feed            \* the file read: the element names and character data its
                    \* tokens are made of and the bounds on their number

filterVars == <<fpost, fhtml, fopts, fresult, fpc>>
streamVars == <<request, response, options, currentPost, currentTag, inItem, inPostMeta, currentMetaKey,
                currentMetaValue, currentCategory, postCount, processedCount, pending,
                stored, conversion, phase, path, span, handed, stats, feed>>
vars == <<filterVars, streamVars>>

\* JavaScript null / undefined: NoValue where a string is expected, Null where
\* an object is
NoValue == "<none>"
Null == [null |-> TRUE]

-----------------------------------------------------------------------------
(* Strings.  A JavaScript string is a TLA+ string; characters are          *)
(* one-character strings.                                                  *)

Char(s, i) == SubSeq(s, i, i)

UpperChars == "ABCDEFGHIJKLMNOPQRSTUVWXYZ"
LowerChars == "abcdefghijklmnopqrstuvwxyz"
DigitChars == "0123456789"
SpaceChars == " \t\n\r"

InChars(c, chars) == \E i \in 1..Len(chars) : Char(chars, i) = c

\* \d
IsDigit(c) == InChars(c, DigitChars)
\* \s
IsSpace(c) == InChars(c, SpaceChars)
\* \w  ==  [A-Za-z0-9_]
IsWordChar(c) == InChars(c, UpperChars) \/ InChars(c, LowerChars) \/ IsDigit(c) \/ c = "_"

LowerChar(c) ==
    IF InChars(c, UpperChars)
    THEN Char(LowerChars, CHOOSE i \in 1..Len(UpperChars) : Char(UpperChars, i) = c)
    ELSE c

RECURSIVE toLowerCase(_)
toLowerCase(s) ==
    IF s = "" THEN "" ELSE LowerChar(Char(s, 1)) \o toLowerCase(SubSeq(s, 2, Len(s)))

\* String.prototype.includes
includes(s, sub) ==
    \E i \in 1..(Len(s) - Len(sub) + 1) : SubSeq(s, i, i + Len(sub) - 1) = sub

\* the position of the first ch at or after position i, 0 when there is none
IndexFrom(s, ch, i) ==
    IF \E j \in i..Len(s) : Char(s, j) = ch
    THEN CHOOSE j \in i..Len(s) : Char(s, j) = ch /\ \A k \in i..(j - 1) : Char(s, k) # ch
    ELSE 0

\* s.replace(/<[^>]*>/g, rep): a '<' starts a match iff a '>' follows it, and
\* the match runs to the first such '>'.  The leftmost match starts at the
\* first '<' of s: if no '>' follows that one, none follows a later one.
RECURSIVE ReplaceTags(_, _)
ReplaceTags(s, rep) ==
    LET open  == IndexFrom(s, "<", 1)
        close == IF open = 0 THEN 0 ELSE IndexFrom(s, ">", open + 1)
    IN  IF close = 0 THEN s
        ELSE SubSeq(s, 1, open - 1) \o rep
                 \o ReplaceTags(SubSeq(s, close + 1, Len(s)), rep)

\* s.replace(/[^\w\s]/g, ' '): character by character
RECURSIVE ReplaceNonWord(_)
ReplaceNonWord(s) ==
    IF s = "" THEN ""
    ELSE IF Len(s) = 1
    THEN (IF IsWordChar(s) \/ IsSpace(s) THEN s ELSE " ")
    ELSE LET half == Len(s) \div 2
         IN  ReplaceNonWord(SubSeq(s, 1, half)) \o ReplaceNonWord(SubSeq(s, half + 1, Len(s)))

\* String.prototype.trim
TrimLeft(s) ==
    IF \A i \in 1..Len(s) : IsSpace(Char(s, i)) THEN ""
    ELSE SubSeq(s, CHOOSE i \in 1..Len(s) :
                       ~IsSpace(Char(s, i)) /\ \A k \in 1..(i - 1) : IsSpace(Char(s, k)),
                Len(s))

TrimRight(s) ==
    IF \A i \in 1..Len(s) : IsSpace(Char(s, i)) THEN ""
    ELSE SubSeq(s, 1, CHOOSE i \in 1..Len(s) :
                          ~IsSpace(Char(s, i)) /\ \A k \in (i + 1)..Len(s) : IsSpace(Char(s, k)))

trim(s) == TrimRight(TrimLeft(s))

\* s.split(/\s+/).filter(word => word.length > 0).length: the pieces between
\* the maximal runs of white space; a piece starts where a non-space
\* character follows the start of the string or a white-space character
SplitCount(s) ==
    Cardinality({i \in 1..Len(s) :
        /\ ~IsSpace(Char(s, i))
        /\ (i = 1 \/ IsSpace(Char(s, i - 1)))})

\* non-negative integer -> decimal digits
RECURSIVE IntToString(_)
IntToString(n) ==
    IF n < 10 THEN Char(DigitChars, n + 1)
    ELSE IntToString(n \div 10) \o Char(DigitChars, (n % 10) + 1)

-----------------------------------------------------------------------------
(* Content filtering module.  A ratio is kept exact, as the pair           *)
(* [num, den] of the two lengths the code divides.                         *)

Ratio(n, d) == [num |-> n, den |-> d]
RatioLess(a, b) == a.num * b.den < b.num * a.den

\* Number.prototype.toFixed(2) of a ratio in [0, 1]: hundredths, rounded half up
ToFixed2(r) ==
    LET h == (200 * r.num + r.den) \div (2 * r.den)
    IN  IntToString(h \div 100) \o "." \o IntToString((h % 100) \div 10) \o IntToString(h % 10)

countWords_TagsRemoved(text) ==
    LET cleanText == ReplaceTags(text, "")
    IN  SplitCount(trim(ReplaceNonWord(cleanText)))

\* text.replace(/<[^>]*>/g, ' ').replace(/[^\w\s]/g, ' ').trim().split(/\s+/)
\*     .filter(word => word.length > 0).length
countWords(text) ==
    LET cleanText == ReplaceTags(text, " ")
    IN  SplitCount(trim(ReplaceNonWord(cleanText)))

calculateTextToHtmlRatio_NoGuard(html) ==
    Ratio(Len(trim(ReplaceTags(html, ""))), Len(html))

\* if (!html || html.length === 0) return 0;
\* return html.replace(/<[^>]*>/g, '').trim().length / html.length
calculateTextToHtmlRatio(html) ==
    IF Len(html) = 0 THEN Ratio(0, 1)
    ELSE Ratio(Len(trim(ReplaceTags(html, ""))), Len(html))

\* /<name[^>]*>/i matches at position i
TagAt(html, name, i) ==
    /\ Char(html, i) = "<"
    /\ i + Len(name) <= Len(html)
    /\ toLowerCase(SubSeq(html, i, i + Len(name))) = "<" \o name
    /\ IndexFrom(html, ">", i + Len(name) + 1) # 0

hasImages(html) == \E i \in 1..Len(html) : TagAt(html, "img", i)

EmbedShortLength == 1000

isEmbedHeavy_AtMost(html) ==
    LET embedMatches == {i \in 1..Len(html) :
            TagAt(html, "iframe", i) \/ TagAt(html, "embed", i) \/ TagAt(html, "object", i)}
    IN  Cardinality(embedMatches) > 0 /\ Len(html) <= EmbedShortLength

\* embedMatches.length > 0 && contentLength < 1000
isEmbedHeavy(html) ==
    LET embedMatches == {i \in 1..Len(html) :
            TagAt(html, "iframe", i) \/ TagAt(html, "embed", i) \/ TagAt(html, "object", i)}
    IN  Cardinality(embedMatches) > 0 /\ Len(html) < EmbedShortLength

\* postName.match(/-\d+$/)
MatchesDashDigitsAtEnd(s) ==
    \E i \in 1..(Len(s) - 1) :
        Char(s, i) = "-" /\ \A j \in (i + 1)..Len(s) : IsDigit(Char(s, j))

\* postTitle.match(/Page \d+/i)
MatchesPageDigits(s) ==
    \E i \in 1..(Len(s) - 5) :
        toLowerCase(SubSeq(s, i, i + 4)) = "page " /\ IsDigit(Char(s, i + 5))

\* the four rules of isSystemGeneratedPage, on
\*   postType = post['wp:post_type'] || '',  postName = post['wp:post_name'] || '',
\*   postTitle = post.title || '',           postLink = post.link || ''
IsTagPage(post) ==
    post["wp:post_type"] = "page" /\
        (\/ includes(toLowerCase(post["title"]), "tag:")
         \/ includes(toLowerCase(post["title"]), "category:")
         \/ includes(post["wp:post_name"], "tag-")
         \/ includes(post["wp:post_name"], "category-"))

IsArchivePage(post) ==
    post["wp:post_type"] = "page" /\
        (\/ includes(toLowerCase(post["title"]), "archive")
         \/ includes(post["wp:post_name"], "archive")
         \/ (includes(post["link"], "/20") /\
                (includes(post["link"], "/0") \/ includes(post["link"], "/1"))))

IsAuthorPage(post) ==
    post["wp:post_type"] = "page" /\
        (\/ includes(toLowerCase(post["title"]), "author:")
         \/ includes(post["wp:post_name"], "author-")
         \/ includes(post["link"], "/author/"))

IsPaginated_GatedOnPage(post) ==
    post["wp:post_type"] = "page" /\
        (\/ includes(post["link"], "/page/")
         \/ includes(post["wp:post_name"], "-page-")
         \/ MatchesDashDigitsAtEnd(post["wp:post_name"])
         \/ MatchesPageDigits(post["title"]))

IsPaginated(post) ==
    \/ includes(post["link"], "/page/")
    \/ includes(post["wp:post_name"], "-page-")
    \/ MatchesDashDigitsAtEnd(post["wp:post_name"])
    \/ MatchesPageDigits(post["title"])

SystemPage(type) == [isSystemPage |-> TRUE, pageType |-> type]
NotSystemPage == [isSystemPage |-> FALSE, pageType |-> NoValue]

isSystemGeneratedPage_ArchiveFirst(post) ==
    IF IsArchivePage(post) THEN SystemPage("archive")
    ELSE IF IsTagPage(post) THEN SystemPage("tag")
    ELSE IF IsAuthorPage(post) THEN SystemPage("author")
    ELSE IF IsPaginated(post) THEN SystemPage("paginated")
    ELSE NotSystemPage

isSystemGeneratedPage(post) ==
    IF IsTagPage(post) THEN SystemPage("tag")
    ELSE IF IsArchivePage(post) THEN SystemPage("archive")
    ELSE IF IsAuthorPage(post) THEN SystemPage("author")
    ELSE IF IsPaginated(post) THEN SystemPage("paginated")
    ELSE NotSystemPage

\* ---- inputs of the content filtering functions ----

PostKeys == {"wp:post_type", "wp:post_name", "wp:status", "title", "link"}

\* a post object; a property the export did not carry is "" (the code reads
\* every property through  || ''  or compares it with a non-empty literal)
Post(type, name, status, title, link) ==
    [k \in PostKeys |->
        CASE k = "wp:post_type" -> type
          [] k = "wp:post_name" -> name
          [] k = "wp:status"    -> status
          [] k = "title"        -> title
          [] k = "link"         -> link]

ClassifyTypes  == {"post", "page", ""}
ClassifyNames  == {"", "regular-post", "tag-example", "category-news", "archive-list",
                   "author-admin", "example-post-page-2", "post-2"}
ClassifyTitles == {"Regular Post", "Tag: Example", "CATEGORY: News", "Archive: May",
                   "Author: Admin", "Example Post page 12", "Tag: Archive Author: Page 2"}
ClassifyLinks  == {"", "https://example.com/regular-post", "https://example.com/2023/05",
                   "https://example.com/author/admin", "https://example.com/example-post/page/2",
                   "https://example.com/2024-plans/1st-steps"}
ClassifyStatus == {"publish"}

ClassifyPosts ==
    {Post(t, n, st, ti, l) : t \in ClassifyTypes, n \in ClassifyNames, st \in ClassifyStatus,
                             ti \in ClassifyTitles, l \in ClassifyLinks}

\* the sample posts of tests/unit/contentFiltering.test.ts, and drafts of them
regularPost   == Post("post", "regular-post", "publish", "Regular Post", "https://example.com/regular-post")
draftPost     == Post("post", "draft-post", "draft", "Draft Post", "https://example.com/draft-post")
tagPage       == Post("page", "tag-example", "", "Tag: Example", "https://example.com/tag/example")
archivePage   == Post("page", "archive-2023", "", "Archive: 2023", "https://example.com/2023")
authorPage    == Post("page", "author-admin", "", "Author: Admin", "https://example.com/author/admin")
paginatedPage == Post("post", "example-post-page-2", "", "Example Post Page 2",
                      "https://example.com/example-post/page/2")
draftTagPage  == Post("page", "tag-example", "draft", "Tag: Example", "https://example.com/tag/example")
draftPaginated == Post("post", "draft-post-2", "draft", "Draft Post", "https://example.com/draft-post")
regularPage   == Post("page", "about", "publish", "About", "https://example.com/about")

FilterPosts == {regularPost, draftPost, tagPage, archivePage, authorPage, paginatedPage,
                draftTagPage, draftPaginated, regularPage}

\* bodies: 0, 2, 3 and 4 words; with and without an image; an embed; ratios
\* 0, 17/44, 11/18, 15/33, 1
FilterBodies ==
    {"<p>Hello world</p>",
     "<div><h1>Test</h1><p>One two three</p></div>",
     "One two three",
     "<img src=\"x.jpg\"/>One two three four",
     "<iframe src=\"x\"></iframe>"}

\* ---- the character data of the token stream (Spec) ----
TextValues  == {"Title"}
CDataValues == {"<p>A</p>", "<p>B</p>"}

\* bound: text and CDATA tokens between two open('item') tokens
MaxDeliveries == 3

\* the strings up to n text and CDATA tokens add up to
RECURSIVE Concatenations(_)
Concatenations(n) ==
    IF n = 0 THEN {""}
    ELSE LET shorter == Concatenations(n - 1)
         IN  shorter \cup {s \o v : s \in shorter, v \in TextValues \cup CDataValues}

StreamBodies == Concatenations(MaxDeliveries)

\* The four measurements analyzeContentQuality takes of a body, and the
\* classification of a post, are computed once for the bodies and posts the
\* specifications draw (TLC evaluates a constant table once) and directly
\* for every other string.
MeasureBody(html) ==
    [wordCount       |-> countWords(html),
     textToHtmlRatio |-> calculateTextToHtmlRatio(html),
     hasImages       |-> hasImages(html),
     isEmbedContent  |-> isEmbedHeavy(html)]

BodyMemo == [h \in FilterBodies \cup StreamBodies |-> MeasureBody(h)]
Measured(html) ==
    IF html \in FilterBodies \cup StreamBodies THEN BodyMemo[html] ELSE MeasureBody(html)

\* the fields of a post that isSystemGeneratedPage and shouldProcessPost read
PostFields(post) == [k \in PostKeys |-> post[k]]

\* the records of the streaming pass, which owns no element that fills
\* wp:post_type, wp:post_name, wp:status or link
StreamPosts == {Post("", "", "", title, "") : title \in StreamBodies}

ClassifyMemo == [p \in FilterPosts \cup StreamPosts |-> isSystemGeneratedPage(p)]
Classified(post) ==
    LET fields == PostFields(post)
    IN  IF fields \in FilterPosts \cup StreamPosts THEN ClassifyMemo[fields]
        ELSE isSystemGeneratedPage(post)

\* the "Add system page checks" condition of analyzeContentQuality
SystemPageExcluded(check, opts) ==
    check.isSystemPage /\
        (\/ (check.pageType = "tag" /\ opts.excludeTagPages)
         \/ (check.pageType = "archive" /\ opts.excludeArchivePages)
         \/ (check.pageType = "author" /\ opts.excludeAuthorPages)
         \/ (check.pageType = "paginated" /\ opts.excludePaginatedPages))

LowByQuality_NonStrict(m, opts) ==
    \/ m.wordCount <= opts.minWordCount
    \/ RatioLess(m.textToHtmlRatio, opts.minTextToHtmlRatio)
    \/ (opts.excludeEmbedOnlyPosts /\ m.isEmbedContent)
    \/ (opts.excludeNoImages /\ ~m.hasImages)

\* the first value of  let isLowValue
LowByQuality(m, opts) ==
    \/ m.wordCount < opts.minWordCount
    \/ RatioLess(m.textToHtmlRatio, opts.minTextToHtmlRatio)
    \/ (opts.excludeEmbedOnlyPosts /\ m.isEmbedContent)
    \/ (opts.excludeNoImages /\ ~m.hasImages)

\* post = Null is the default argument post = null
analyzeContentQuality(html, opts, post) ==
    LET m == Measured(html)
        check == IF post # Null THEN Classified(post) ELSE NotSystemPage
    IN  [wordCount       |-> m.wordCount,
         textToHtmlRatio |-> m.textToHtmlRatio,
         hasImages       |-> m.hasImages,
         hasEmbeds       |-> m.isEmbedContent,
         isLowValue      |-> IF SystemPageExcluded(check, opts) THEN TRUE
                             ELSE LowByQuality(m, opts),
         pageType        |-> IF check.isSystemPage THEN check.pageType ELSE NoValue]

Rejected(qualityMetrics, reason) ==
    [shouldProcess |-> FALSE, qualityMetrics |-> qualityMetrics, skipReason |-> reason]

LowValueReason(qualityMetrics) ==
    "low-value content (words: " \o IntToString(qualityMetrics.wordCount)
        \o ", ratio: " \o ToFixed2(qualityMetrics.textToHtmlRatio) \o ")"

RejectLowValue_ByMetricsPageType(post, qualityMetrics, opts) ==
    IF SystemPageExcluded(Classified(post), opts)
    THEN Rejected(qualityMetrics, "system-generated " \o Classified(post).pageType \o " page")
    ELSE Rejected(qualityMetrics, LowValueReason(qualityMetrics))

\* the branch  if (qualityMetrics.isLowValue) { ... }
RejectLowValue(post, qualityMetrics, opts) ==
    LET systemPageCheck == Classified(post)
    IN  IF systemPageCheck.isSystemPage
        THEN Rejected(qualityMetrics, "system-generated " \o systemPageCheck.pageType \o " page")
        ELSE Rejected(qualityMetrics, LowValueReason(qualityMetrics))

FilterPost_DraftFirst(post, htmlContent, opts) ==
    LET qualityMetrics == analyzeContentQuality(htmlContent, opts, post)
    IN  IF opts.excludeDraftPosts /\ post["wp:status"] = "draft"
        THEN Rejected(qualityMetrics, "draft post")
        ELSE IF qualityMetrics.isLowValue
        THEN RejectLowValue(post, qualityMetrics, opts)
        ELSE [shouldProcess |-> TRUE, qualityMetrics |-> qualityMetrics,
              skipReason |-> NoValue]

\* shouldProcessPost once filterLowValueContent is known to be on
FilterPost(post, htmlContent, opts) ==
    LET qualityMetrics == analyzeContentQuality(htmlContent, opts, post)
    IN  IF qualityMetrics.isLowValue
        THEN RejectLowValue(post, qualityMetrics, opts)
        ELSE IF opts.excludeDraftPosts /\ post["wp:status"] = "draft"
        THEN Rejected(qualityMetrics, "draft post")
        ELSE [shouldProcess |-> TRUE, qualityMetrics |-> qualityMetrics,
              skipReason |-> NoValue]

shouldProcessPost_SwitchAfterDraft(post, htmlContent, opts) ==
    IF opts.excludeDraftPosts /\ post["wp:status"] = "draft"
    THEN Rejected(Null, "draft post")
    ELSE IF ~opts.filterLowValueContent
    THEN [shouldProcess |-> TRUE, qualityMetrics |-> Null, skipReason |-> NoValue]
    ELSE FilterPost(post, htmlContent, opts)

shouldProcessPost(post, htmlContent, opts) ==
    IF ~opts.filterLowValueContent
    THEN [shouldProcess |-> TRUE, qualityMetrics |-> Null, skipReason |-> NoValue]
    ELSE FilterPost(post, htmlContent, opts)

-----------------------------------------------------------------------------
(* Options drawn by the filtering specifications.                          *)

\* bounds of the thresholds drawn
MaxMinWordCount == 3
\* minTextToHtmlRatio is drawn from the multiples of 1/RatioSteps in [0, 1]
RatioSteps == 2

Toggles == [excludeEmbedOnlyPosts : BOOLEAN, excludeDraftPosts : BOOLEAN,
            excludeNoImages : BOOLEAN, excludeTagPages : BOOLEAN,
            excludeArchivePages : BOOLEAN, excludeAuthorPages : BOOLEAN,
            excludePaginatedPages : BOOLEAN]

FilteringOptions(filter, minWords, minRatio, t) ==
    [filterLowValueContent |-> filter,
     minWordCount          |-> minWords,
     minTextToHtmlRatio    |-> minRatio,
     excludeEmbedOnlyPosts |-> t.excludeEmbedOnlyPosts,
     excludeDraftPosts     |-> t.excludeDraftPosts,
     excludeNoImages       |-> t.excludeNoImages,
     excludeTagPages       |-> t.excludeTagPages,
     excludeArchivePages   |-> t.excludeArchivePages,
     excludeAuthorPages    |-> t.excludeAuthorPages,
     excludePaginatedPages |-> t.excludePaginatedPages]

AllOptions ==
    {FilteringOptions(f, w, Ratio(k, RatioSteps), t) :
        f \in BOOLEAN, w \in 0..MaxMinWordCount, k \in 0..RatioSteps, t \in Toggles}

-----------------------------------------------------------------------------
(* The stream variables do not move in the filtering specifications.        *)

StreamIdle ==
    /\ request = Null /\ response = Null
    /\ options = Null /\ currentPost = Null /\ currentTag = "" /\ inItem = FALSE
    /\ inPostMeta = FALSE /\ currentMetaKey = "" /\ currentMetaValue = ""
    /\ currentCategory = Null /\ postCount = 0 /\ processedCount = 0
    /\ pending = <<>> /\ stored = Null /\ conversion = Null /\ phase = "idle"
    /\ path = <<>> /\ span = Null /\ handed = Null /\ stats = Null /\ feed = Null

(* SpecClassify: isSystemGeneratedPage applied to one post.                 *)

InitClassify ==
    /\ fpost \in ClassifyPosts
    /\ fhtml = "" /\ fopts = Null /\ fresult = Null /\ fpc = "input"
    /\ StreamIdle

Classify ==
    /\ fpc = "input"
    /\ fresult' = isSystemGeneratedPage(fpost)
    /\ fpc' = "classified"
    /\ UNCHANGED <<fpost, fhtml, fopts, streamVars>>

NextClassify == Classify

SpecClassify == InitClassify /\ [][NextClassify]_vars

(* SpecFilter: analyzeContentQuality and shouldProcessPost applied to one   *)
(* post and one body, under every combination of the options.               *)

InitFilter ==
    /\ fpost \in FilterPosts \cup {Null}
    /\ fhtml \in FilterBodies
    /\ fopts = Null /\ fresult = Null /\ fpc = "input"
    /\ StreamIdle

\* analyzeContentQuality(html, options) and analyzeContentQuality(html, options, post)
Analyze ==
    /\ fpc = "input"
    /\ \E o \in AllOptions :
        /\ fopts' = o
        /\ fresult' = analyzeContentQuality(fhtml, o, fpost)
    /\ fpc' = "analyzed"
    /\ UNCHANGED <<fpost, fhtml, streamVars>>

\* shouldProcessPost(post, htmlContent, options); its callers always pass a post
Decide ==
    /\ fpc = "input"
    /\ fpost # Null
    /\ \E o \in AllOptions :
        /\ fopts' = o
        /\ fresult' = shouldProcessPost(fpost, fhtml, o)
    /\ fpc' = "decided"
    /\ UNCHANGED <<fpost, fhtml, streamVars>>

NextFilter == Analyze \/ Decide

SpecFilter == InitFilter /\ [][NextFilter]_vars

(* SpecMeasure: countWords, calculateTextToHtmlRatio and isEmbedHeavy       *)
(* applied to one string.                                                   *)

\* bound: the length of the strings drawn over MeasureChars
MaxLen == 4

\* a word character, white space, the two tag delimiters, punctuation
MeasureChars == {"a", " ", "<", ">", "."}

RECURSIVE StringsUpTo(_)
StringsUpTo(n) ==
    IF n = 0 THEN {""}
    ELSE LET shorter == StringsUpTo(n - 1)
         IN  shorter \cup {s \o c : s \in shorter, c \in MeasureChars}

\* s repeated n times
RECURSIVE Repeat(_, _)
Repeat(s, n) ==
    IF n = 0 THEN ""
    ELSE IF n % 2 = 0 THEN LET half == Repeat(s, n \div 2) IN half \o half
    ELSE s \o Repeat(s, n - 1)

\* an opening tag followed by prose up to the length len
PaddedTo(open, len) == open \o Repeat("x", len - Len(open))

EmbedTags == {"<iframe src=\"x\">", "<EMBED>", "<object data=\"x\">", "<p>", "<iframe"}

\* bodies around the short-content threshold of isEmbedHeavy
MeasureLengths == {EmbedShortLength - 1, EmbedShortLength, EmbedShortLength + 1}

MeasureInputs ==
    StringsUpTo(MaxLen) \cup FilterBodies \cup EmbedTags
        \cup {PaddedTo(t, n) : t \in EmbedTags, n \in MeasureLengths}

InitMeasure ==
    /\ fpost = Null
    /\ fhtml \in MeasureInputs
    /\ fopts = Null /\ fresult = Null /\ fpc = "input"
    /\ StreamIdle

\* countWords(html), calculateTextToHtmlRatio(html), isEmbedHeavy(html)
Measure ==
    /\ fpc = "input"
    /\ fresult' = [wordCount       |-> countWords(fhtml),
                   textToHtmlRatio |-> calculateTextToHtmlRatio(fhtml),
                   hasEmbeds       |-> isEmbedHeavy(fhtml)]
    /\ fpc' = "measured"
    /\ UNCHANGED <<fpost, fhtml, fopts, streamVars>>

NextMeasure == Measure

SpecMeasure == InitMeasure /\ [][NextMeasure]_vars

-----------------------------------------------------------------------------
(* processXmlFile: the streaming pass over the export file.                 *)
(*                                                                          *)
(* The SAX parser calls onopentag, onclosetag, ontext and oncdata once per  *)
(* token, synchronously, for all the tokens of one chunk of the file.       *)
(* onclosetag is an async function: it runs up to its first await inside    *)
(* the parser's call and the rest of its body runs when the chunk has been  *)
(* consumed, after the handlers of the later tokens of the chunk.  The      *)
(* suspended calls are kept in pending.  The storage is the in-memory one:  *)
(* a write takes effect when the storage method is called.                  *)

\* the element names the token stream carries in Spec; the export format
\* has no element named content
Tags == {"item", "title", "content:encoded"}

\* the elements of a custom field: <wp:postmeta> holds <wp:meta_key> and
\* <wp:meta_value>
MetaTags == {"wp:postmeta", "wp:meta_key", "wp:meta_value"}

\* the properties a record can own: those the handlers and the filter read
\* and one per element name
BagKeys == PostKeys \cup Tags \cup MetaTags \cup
           {"content", "content:encoded", "excerpt:encoded", "dc:creator", "category"}

\* the record onopentag creates for an item; "" stands for an absent or
\* empty property, which the handlers do not tell apart
NewPost ==
    [bag           |-> [k \in BagKeys |-> ""],
     categories    |-> <<>>,
     tags          |-> <<>>,
     custom_fields |-> {}]

HasRequiredFields_TitleOptional(post) ==
    post.bag["content"] # "" \/ post.bag["content:encoded"] # ""

\* currentPost.title && (currentPost.content || currentPost['content:encoded'])
HasRequiredFields(post) ==
    /\ post.bag["title"] # ""
    /\ (post.bag["content"] # "" \/ post.bag["content:encoded"] # "")

\* const htmlContent = currentPost['content:encoded'] || currentPost.content
HtmlContent(post) ==
    IF post.bag["content:encoded"] # "" THEN post.bag["content:encoded"]
    ELSE post.bag["content"]

\* ontext on a record: set the property when it is falsy, append otherwise
TextOnPost(post, tag, text) ==
    IF post.bag[tag] = "" THEN [post EXCEPT !.bag[tag] = text]
    ELSE [post EXCEPT !.bag[tag] = @ \o text]

CDataOnPost_Overwrite(post, tag, text) ==
    IF tag \in {"content:encoded", "excerpt:encoded", "dc:creator"}
    THEN [post EXCEPT !.bag[tag] = text]
    ELSE post

\* oncdata on a record: the body is appended to, the excerpt and the author
\* are overwritten, every other element's CDATA is dropped
CDataOnPost(post, tag, text) ==
    IF tag = "content:encoded"
    THEN IF post.bag[tag] = "" THEN [post EXCEPT !.bag[tag] = text]
         ELSE [post EXCEPT !.bag[tag] = @ \o text]
    ELSE IF tag \in {"excerpt:encoded", "dc:creator"}
    THEN [post EXCEPT !.bag[tag] = text]
    ELSE post

\* currentPost.metadata.custom_fields[currentMetaKey] = currentMetaValue
SetCustomField(fields, key, value) ==
    {f \in fields : f[1] # key} \cup {<<key, value>>}

RouteCategory_TagsAsCategories(post, category) ==
    IF category.domain \in {"category", "post_tag"}
    THEN [post EXCEPT !.categories = Append(@, category.name)]
    ELSE post

\* if (currentCategory.domain === 'category') categories.push(name)
\* else if (currentCategory.domain === 'post_tag') tags.push(name)
RouteCategory(post, category) ==
    IF category.domain = "category"
    THEN [post EXCEPT !.categories = Append(@, category.name)]
    ELSE IF category.domain = "post_tag"
    THEN [post EXCEPT !.tags = Append(@, category.name)]
    ELSE post

CommitMeta_KeyOnly(post, key, value) ==
    IF key # ""
    THEN [post EXCEPT !.custom_fields = SetCustomField(@, key, value)]
    ELSE post

\* if (currentMetaKey && currentMetaValue) { custom_fields[...] = ... }
CommitMeta(post, key, value) ==
    IF key # "" /\ value # ""
    THEN [post EXCEPT !.custom_fields = SetCustomField(@, key, value)]
    ELSE post

\* the argument of storage.createMarkdownPost; content is the Markdown that
\* turndown renders from html
MarkdownPost(post, html) ==
    [title  |-> post.bag["title"],
     html   |-> html,
     status |-> IF post.bag["wp:status"] # "" THEN post.bag["wp:status"] ELSE "publish",
     type   |-> IF post.bag["wp:post_type"] # "" THEN post.bag["wp:post_type"] ELSE "post",
     categories    |-> post.categories,
     tags          |-> post.tags,
     custom_fields |-> post.custom_fields]

\* MemStorage.createMarkdownPost: one more post is stored
createMarkdownPost(store, post) == store + 1

\* MemStorage.updateConversionProgress
updateConversionProgress(conv, processed, total) ==
    [conv EXCEPT !.processedPosts = processed, !.totalPosts = total]

\* MemStorage.updateConversionStatus
updateConversionStatus(conv, status) == [conv EXCEPT !.status = status]

\* if (processedCount % 5 === 0)
ProgressEvery == 5

\* the options processXmlFile receives: the request's options as
\* conversionOptionsSchema parses them.  The schema has no page-type
\* toggles, so they are absent (falsy) in every run.
ParsedOptions(filter, minWords, minRatio) ==
    FilteringOptions(filter, minWords, minRatio,
        [excludeEmbedOnlyPosts |-> TRUE, excludeDraftPosts |-> TRUE,
         excludeNoImages |-> FALSE, excludeTagPages |-> FALSE,
         excludeArchivePages |-> FALSE, excludeAuthorPages |-> FALSE,
         excludePaginatedPages |-> FALSE])

\* a request that filters out the bodies of fewer than two words: the runs
\* reject the bodies of one fragment and accept the longer ones (a request
\* without options accepts every body)
RunOptions ==
    {ParsedOptions(TRUE, 2, Ratio(0, 1))}

\* ---- bounds of the token stream ----
\* item elements in the file
MaxItems == 2
\* tokens that do not fit the export format's nesting
MaxFaults == 1

\* ---- the token stream as the export format nests it ----
\* A channel holds item elements, post-meta elements and leaf elements; an
\* item holds post-meta elements and leaf elements; a post-meta element
\* holds leaf elements; a leaf holds text and CDATA.  A token that does not
\* fit is a fault: it reaches the handlers, leaves path where it was and
\* ends the account kept of the open item span.
Top(p) == IF p = <<>> THEN "" ELSE p[Len(p)]

Fits(kind, name) ==
    CASE kind = "open"  -> IF name = "item" THEN path = <<>>
                           ELSE IF name = "wp:postmeta" THEN path \in {<<>>, <<"item">>}
                           ELSE Top(path) \in {"", "item", "wp:postmeta"}
      [] kind = "close" -> path # <<>> /\ Top(path) = name
      [] kind = "end"   -> path = <<>>
      [] OTHER          -> Top(path) \notin {"", "item", "wp:postmeta"}

\* the leaf of the open item span that a text or CDATA token belongs to
InSpanLeaf(kind, name) ==
    Fits(kind, name) /\ kind \in {"text", "cdata"} /\ Len(path) = 2 /\ span # Null

\* the leaf of the post-meta element open in the item span that a text or
\* CDATA token belongs to
InSpanMeta(kind, name) ==
    /\ Fits(kind, name) /\ kind \in {"text", "cdata"} /\ span # Null
    /\ Len(path) = 3 /\ path[2] = "wp:postmeta"

\* the account opened for an item span: the record its leaves add up to,
\* the fragments of its content:encoded, and the character data its open
\* (or last) post-meta element has delivered as key and as value, in order
\* the account of a category element of the item span: the domain
\* attribute of its open tag and the character data it has delivered
NoCategory == [domain |-> "", texts |-> <<>>, cdatas |-> <<>>]

\* the category element open in the item span that a text or CDATA token
\* belongs to
InSpanCategory(kind, name) ==
    /\ Fits(kind, name) /\ kind \in {"text", "cdata"} /\ span # Null
    /\ path = <<"item", "category">>

NewSpan ==
    [post |-> NewPost, frags |-> <<>>, keys |-> <<>>, values |-> <<>>,
     category |-> NoCategory]

\* the bookkeeping of one delivered token
Account(kind, name, text, attributes, sinkErrors) ==
    LET fits     == Fits(kind, name)
        openItem == kind = "open" /\ name = "item"
        closeItem == kind = "close" /\ name = "item"
        delivery == kind \in {"text", "cdata"}
        counted  == kind = "open" /\ name \in feed.counted
    IN  /\ fits \/ stats.faults < feed.faults
        /\ delivery => stats.deliveries < feed.deliveries
        /\ openItem => stats.items < postCount
        /\ counted => stats.elements < feed.elements
        /\ stats.sinkErrors + sinkErrors <= feed.sinkErrors
        /\ path' = IF ~fits THEN path
                   ELSE IF kind = "open" THEN Append(path, name)
                   ELSE IF kind = "close" THEN SubSeq(path, 1, Len(path) - 1)
                   ELSE path
        /\ span' = IF ~fits THEN Null
                   ELSE IF openItem THEN NewSpan
                   ELSE IF closeItem THEN Null
                   ELSE IF span # Null /\ kind = "open" /\ name = "wp:postmeta"
                   THEN [span EXCEPT !.keys = <<>>, !.values = <<>>]
                   ELSE IF InSpanMeta(kind, name)
                   THEN IF Top(path) = "wp:meta_key" /\ kind = "text"
                        THEN [span EXCEPT !.keys = Append(@, text)]
                        ELSE IF Top(path) = "wp:meta_value"
                        THEN [span EXCEPT !.values = Append(@, text)]
                        ELSE span
                   ELSE IF span # Null /\ kind = "open" /\ name = "category"
                           /\ path = <<"item">>
                   THEN [span EXCEPT !.category =
                            [domain |-> attributes.domain, texts |-> <<>>, cdatas |-> <<>>]]
                   ELSE IF InSpanCategory(kind, name)
                   THEN [span EXCEPT
                           !.post = IF kind = "text"
                                    THEN TextOnPost(span.post, Top(path), text)
                                    ELSE CDataOnPost(span.post, Top(path), text),
                           !.category.texts  = IF kind = "text" THEN Append(@, text) ELSE @,
                           !.category.cdatas = IF kind = "cdata" THEN Append(@, text) ELSE @]
                   ELSE IF InSpanLeaf(kind, name)
                   THEN [span EXCEPT
                           !.post  = IF kind = "text"
                                     THEN TextOnPost(span.post, Top(path), text)
                                     ELSE CDataOnPost(span.post, Top(path), text),
                           !.frags = IF Top(path) = "content:encoded"
                                     THEN Append(span.frags, text)
                                     ELSE span.frags]
                   ELSE span
        /\ stats' = [items      |-> stats.items + (IF openItem THEN 1 ELSE 0),
                     complete   |-> stats.complete +
                                    (IF fits /\ closeItem /\ span # Null
                                        /\ HasRequiredFields(span.post)
                                     THEN 1 ELSE 0),
                     deliveries |-> IF openItem THEN 0
                                    ELSE stats.deliveries + (IF delivery THEN 1 ELSE 0),
                     elements   |-> IF openItem THEN 0
                                    ELSE stats.elements + (IF counted THEN 1 ELSE 0),
                     faults     |-> stats.faults + (IF fits THEN 0 ELSE 1),
                     sinkErrors |-> stats.sinkErrors + sinkErrors]

\* a token is delivered and the storage, if called, stores
Deliver(kind, name, text, attributes) == Account(kind, name, text, attributes, 0)

NoCall == Null

\* an open tag without attributes: node.attributes.domain is undefined
NoAttributes == [domain |-> "", nicename |-> ""]

\* the files of Spec: posts with a title and a body
ExportFeed ==
    [tags |-> Tags, attributes |-> {NoAttributes},
     texts |-> TextValues, cdatas |-> CDataValues,
     deliveries |-> MaxDeliveries, faults |-> MaxFaults,
     counted |-> {}, elements |-> 0, sinkErrors |-> 0]

\* ---- the handlers ----
\* processXmlFile is called for a file drawn from feeds
Start(feeds) ==
    /\ feed \in feeds
    /\ request = Null /\ response = Null
    /\ fpost = Null /\ fhtml = "" /\ fopts = Null /\ fresult = Null /\ fpc = "idle"
    /\ options \in RunOptions
    /\ currentPost = Null /\ currentTag = "" /\ inItem = FALSE
    /\ inPostMeta = FALSE /\ currentMetaKey = "" /\ currentMetaValue = ""
    /\ currentCategory = Null /\ postCount = 0 /\ processedCount = 0
    /\ pending = <<>>
    /\ stored = 0
    /\ conversion = [status |-> "processing", processedPosts |-> 0, totalPosts |-> 0]
    /\ phase = "counting"
    /\ path = <<>> /\ span = Null
    /\ handed = Null
    /\ stats = [items |-> 0, complete |-> 0, deliveries |-> 0, elements |-> 0, sinkErrors |-> 0,
                faults |-> 0]

Init == Start({ExportFeed})

\* await countPosts(...).then(count => { postCount = count; ... })
\* count is the number of open('item') tokens of the file, which the second
\* pass then delivers
CountPosts ==
    /\ phase = "counting"
    /\ \E count \in 0..MaxItems :
        /\ postCount' = count
        /\ conversion' = updateConversionProgress(conversion, 0, count)
    /\ phase' = "parsing"
    /\ UNCHANGED <<filterVars, request, response, options, feed, currentPost, currentTag, inItem, inPostMeta,
                   currentMetaKey, currentMetaValue, currentCategory, processedCount,
                   pending, stored, path, span, handed, stats>>

\* parser.onopentag
OpenTag(name, attributes) ==
    /\ phase = "parsing"
    /\ Deliver("open", name, "", attributes)
    /\ currentTag' = name
    /\ IF name = "item"
       THEN /\ inItem' = TRUE
            /\ currentPost' = NewPost
            /\ UNCHANGED <<inPostMeta, currentMetaKey, currentMetaValue, currentCategory>>
       ELSE IF name = "wp:postmeta"
       THEN /\ inPostMeta' = TRUE
            /\ currentMetaKey' = ""
            /\ currentMetaValue' = ""
            /\ UNCHANGED <<inItem, currentPost, currentCategory>>
       ELSE IF name = "category" /\ inItem
       THEN /\ currentCategory' = [domain   |-> attributes.domain,
                                   nicename |-> attributes.nicename,
                                   name     |-> ""]
            /\ UNCHANGED <<inItem, currentPost, inPostMeta, currentMetaKey, currentMetaValue>>
       ELSE UNCHANGED <<inItem, currentPost, inPostMeta, currentMetaKey,
                        currentMetaValue, currentCategory>>
    /\ handed' = NoCall
    /\ UNCHANGED <<filterVars, request, response, options, feed, postCount, processedCount, pending, stored,
                   conversion, phase>>

\* parser.ontext
Text(text) ==
    /\ phase = "parsing"
    /\ Deliver("text", "", text, NoAttributes)
    /\ IF inPostMeta
       THEN /\ currentMetaKey' = IF currentTag = "wp:meta_key" THEN trim(text)
                                 ELSE currentMetaKey
            /\ currentMetaValue' = IF currentTag # "wp:meta_key" /\ currentTag = "wp:meta_value"
                                   THEN text ELSE currentMetaValue
            /\ UNCHANGED currentPost
       ELSE /\ currentPost' = IF inItem /\ currentPost # Null /\ currentTag # ""
                              THEN TextOnPost(currentPost, currentTag, text)
                              ELSE currentPost
            /\ UNCHANGED <<currentMetaKey, currentMetaValue>>
    /\ handed' = NoCall
    /\ UNCHANGED <<filterVars, request, response, options, feed, currentTag, inItem, inPostMeta, currentCategory,
                   postCount, processedCount, pending, stored, conversion, phase>>

\* parser.oncdata
CData(text) ==
    /\ phase = "parsing"
    /\ Deliver("cdata", "", text, NoAttributes)
    /\ IF inPostMeta /\ currentTag = "wp:meta_value"
       THEN /\ currentMetaValue' = text
            /\ UNCHANGED <<currentPost, currentCategory>>
       ELSE IF inItem /\ currentPost # Null
       THEN /\ currentPost' = CDataOnPost(currentPost, currentTag, text)
            /\ currentCategory' =
                   IF /\ currentTag \notin {"content:encoded", "excerpt:encoded", "dc:creator"}
                      /\ currentTag = "category" /\ currentCategory # Null
                   THEN [currentCategory EXCEPT !.name = text]
                   ELSE currentCategory
            /\ UNCHANGED currentMetaValue
       ELSE UNCHANGED <<currentPost, currentCategory, currentMetaValue>>
    /\ handed' = NoCall
    /\ UNCHANGED <<filterVars, request, response, options, feed, currentTag, inItem, inPostMeta, currentMetaKey,
                   postCount, processedCount, pending, stored, conversion, phase>>

\* the part of onclosetag('item') after "processedCount++", from the state
\* st of the handler's variables: the progress is written every fifth post
\* and the call suspends on that write, else the record is released
CountProcessed(st) ==
    LET count == st.processedCount + 1 IN
    IF count % ProgressEvery = 0
    THEN [st EXCEPT !.processedCount = count,
                    !.conversion = updateConversionProgress(@, count, postCount),
                    !.pending = Append(@, "progress")]
    ELSE [st EXCEPT !.processedCount = count,
                    !.inItem = FALSE, !.currentPost = Null, !.currentTag = ""]

\* the oldest suspended call of onclosetag runs on: after
\* "await storage.createMarkdownPost" it counts the post; after
\* "await storage.updateConversionProgress" it releases the record
Resume(st) ==
    LET rest == [st EXCEPT !.pending = Tail(@)] IN
    IF Head(st.pending) = "created"
    THEN CountProcessed(rest)
    ELSE [rest EXCEPT !.inItem = FALSE, !.currentPost = Null, !.currentTag = ""]

\* the suspended calls run until none is left
RECURSIVE ResumeAll(_)
ResumeAll(st) == IF st.pending = <<>> THEN st ELSE ResumeAll(Resume(st))

HandlerState ==
    [processedCount |-> processedCount, conversion |-> conversion, pending |-> pending,
     inItem |-> inItem, currentPost |-> currentPost, currentTag |-> currentTag]

SetHandlerState(st) ==
    /\ processedCount' = st.processedCount
    /\ conversion' = st.conversion
    /\ pending' = st.pending
    /\ inItem' = st.inItem
    /\ currentPost' = st.currentPost
    /\ currentTag' = st.currentTag

OnCloseTag_Uncaught(name, sinkOk) ==
    /\ phase = "parsing"
    /\ Account("close", name, "", NoAttributes, IF sinkOk THEN 0 ELSE 1)
    /\ IF name = "wp:postmeta" /\ inPostMeta /\ currentPost # Null
       THEN /\ inPostMeta' = FALSE
            /\ currentPost' = CommitMeta(currentPost, currentMetaKey, currentMetaValue)
            /\ currentTag' = ""
            /\ handed' = NoCall
            /\ UNCHANGED <<currentCategory, inItem, processedCount, pending, stored, conversion>>
       ELSE IF name = "category" /\ inItem /\ currentPost # Null /\ currentCategory # Null
       THEN /\ currentPost' = RouteCategory(currentPost, currentCategory)
            /\ currentCategory' = Null
            /\ currentTag' = ""
            /\ handed' = NoCall
            /\ UNCHANGED <<inPostMeta, inItem, processedCount, pending, stored, conversion>>
       ELSE IF name = "item" /\ inItem /\ currentPost # Null /\ HasRequiredFields(currentPost)
       THEN LET htmlContent     == HtmlContent(currentPost)
                filteringResult == shouldProcessPost(currentPost.bag, htmlContent, options)
                created         == IF filteringResult.shouldProcess
                                   THEN MarkdownPost(currentPost, htmlContent)
                                   ELSE Null
            IN  /\ handed' = [post          |-> currentPost,
                              htmlContent   |-> htmlContent,
                              shouldProcess |-> filteringResult.shouldProcess,
                              created       |-> created,
                              span          |-> span,
                              fits          |-> Fits("close", name)]
                /\ IF filteringResult.shouldProcess
                   THEN /\ stored' = IF sinkOk THEN createMarkdownPost(stored, created)
                                      ELSE stored
                        /\ pending' = IF sinkOk THEN Append(pending, "created") ELSE pending
                        /\ UNCHANGED <<processedCount, conversion, inItem, currentPost,
                                       currentTag>>
                   ELSE /\ SetHandlerState(CountProcessed(HandlerState))
                        /\ UNCHANGED stored
                /\ UNCHANGED <<inPostMeta, currentCategory>>
       ELSE /\ currentTag' = ""
            /\ handed' = NoCall
            /\ UNCHANGED <<currentPost, inPostMeta, currentCategory, inItem, processedCount,
                           pending, stored, conversion>>
    /\ UNCHANGED <<filterVars, request, response, options, feed, currentMetaKey, currentMetaValue, postCount, phase>>

\* parser.onclosetag, up to its first await or, if it meets none, to its end.
\* sinkOk: storage.createMarkdownPost, if called, stores the post; if not it
\* rejects, the await throws into "catch (err)" around it, and the call goes
\* on after the catch block as it does after the await
OnCloseTag(name, sinkOk) ==
    /\ phase = "parsing"
    /\ Account("close", name, "", NoAttributes, IF sinkOk THEN 0 ELSE 1)
    /\ IF name = "wp:postmeta" /\ inPostMeta /\ currentPost # Null
       THEN /\ inPostMeta' = FALSE
            /\ currentPost' = CommitMeta(currentPost, currentMetaKey, currentMetaValue)
            /\ currentTag' = ""
            /\ handed' = NoCall
            /\ UNCHANGED <<currentCategory, inItem, processedCount, pending, stored, conversion>>
       ELSE IF name = "category" /\ inItem /\ currentPost # Null /\ currentCategory # Null
       THEN /\ currentPost' = RouteCategory(currentPost, currentCategory)
            /\ currentCategory' = Null
            /\ currentTag' = ""
            /\ handed' = NoCall
            /\ UNCHANGED <<inPostMeta, inItem, processedCount, pending, stored, conversion>>
       ELSE IF name = "item" /\ inItem /\ currentPost # Null /\ HasRequiredFields(currentPost)
       THEN LET htmlContent     == HtmlContent(currentPost)
                filteringResult == shouldProcessPost(currentPost.bag, htmlContent, options)
                created         == IF filteringResult.shouldProcess
                                   THEN MarkdownPost(currentPost, htmlContent)
                                   ELSE Null
            IN  /\ handed' = [post          |-> currentPost,
                              htmlContent   |-> htmlContent,
                              shouldProcess |-> filteringResult.shouldProcess,
                              created       |-> created,
                              span          |-> span,
                              fits          |-> Fits("close", name)]
                /\ IF filteringResult.shouldProcess
                   THEN /\ stored' = IF sinkOk THEN createMarkdownPost(stored, created)
                                      ELSE stored
                        /\ pending' = Append(pending, "created")
                        /\ UNCHANGED <<processedCount, conversion, inItem, currentPost,
                                       currentTag>>
                   ELSE /\ SetHandlerState(CountProcessed(HandlerState))
                        /\ UNCHANGED stored
                /\ UNCHANGED <<inPostMeta, currentCategory>>
       ELSE /\ currentTag' = ""
            /\ handed' = NoCall
            /\ UNCHANGED <<currentPost, inPostMeta, currentCategory, inItem, processedCount,
                           pending, stored, conversion>>
    /\ UNCHANGED <<filterVars, request, response, options, feed, currentMetaKey, currentMetaValue, postCount, phase>>

CloseTag(name) == OnCloseTag(name, TRUE)

\* onclosetag('item') accepts the post and storage.createMarkdownPost rejects
CloseTagSinkError(name) ==
    /\ OnCloseTag(name, FALSE)
    /\ handed' # NoCall
    /\ handed'.shouldProcess

\* the end of a chunk of the file: the parser has returned and the
\* suspended calls of onclosetag run to their end, oldest first
ChunkEnd ==
    /\ phase = "parsing"
    /\ pending # <<>>
    /\ SetHandlerState(ResumeAll(HandlerState))
    /\ handed' = NoCall
    /\ UNCHANGED <<filterVars, request, response, options, feed, inPostMeta, currentMetaKey, currentMetaValue,
                   currentCategory, postCount, stored, phase, path, span, stats>>

OnEnd_Early ==
    /\ phase = "parsing"
    /\ stats.items = postCount
    /\ Fits("end", "") \/ stats.faults < feed.faults
    /\ stats' = [stats EXCEPT !.faults = @ + (IF Fits("end", "") THEN 0 ELSE 1)]
    /\ phase' = "ended"
    /\ handed' = NoCall
    /\ UNCHANGED <<filterVars, request, response, options, feed, currentPost, currentTag, inItem, inPostMeta,
                   currentMetaKey, currentMetaValue, currentCategory, postCount,
                   processedCount, pending, stored, conversion, path, span>>

\* parser.onend = () => resolve(): the file has been read to its end, every
\* chunk consumed.  The end of the file is an event of its own, later than
\* the last chunk: the calls suspended on the in-memory storage have run on
OnEnd ==
    /\ phase = "parsing"
    /\ pending = <<>>
    /\ stats.items = postCount
    /\ Fits("end", "") \/ stats.faults < feed.faults
    /\ stats' = [stats EXCEPT !.faults = @ + (IF Fits("end", "") THEN 0 ELSE 1)]
    /\ phase' = "ended"
    /\ handed' = NoCall
    /\ UNCHANGED <<filterVars, request, response, options, feed, currentPost, currentTag, inItem, inPostMeta,
                   currentMetaKey, currentMetaValue, currentCategory, postCount,
                   processedCount, pending, stored, conversion, path, span>>

\* await storage.updateConversionProgress(conversionId, processedCount, postCount)
\* await storage.updateConversionStatus(conversionId, 'completed')
Finish ==
    /\ phase = "ended"
    /\ conversion' = updateConversionStatus(
                        updateConversionProgress(conversion, processedCount, postCount),
                        "completed")
    /\ phase' = "done"
    /\ UNCHANGED <<filterVars, request, response, options, feed, currentPost, currentTag, inItem, inPostMeta,
                   currentMetaKey, currentMetaValue, currentCategory, postCount,
                   processedCount, pending, stored, path, span, handed, stats>>

Next ==
    \/ CountPosts
    \/ \E name \in feed.tags, attributes \in feed.attributes : OpenTag(name, attributes)
    \/ \E name \in feed.tags : CloseTag(name)
    \/ \E text \in feed.texts : Text(text)
    \/ \E text \in feed.cdatas : CData(text)
    \/ ChunkEnd
    \/ OnEnd
    \/ Finish

Spec == Init /\ [][Next]_vars

\* ---- custom fields (SpecMeta) ----
\* bound: text and CDATA tokens between two open('item') tokens of a file
\* of SpecMeta
MaxMetaDeliveries == 4

\* the files of SpecMeta: items and post-meta elements, nested as the
\* export format does; post-meta elements also occur outside items
MetaFeed ==
    [ExportFeed EXCEPT !.tags = {"item"} \cup MetaTags,
                       !.texts = {"k", "v"}, !.cdatas = {"w"},
                       !.deliveries = MaxMetaDeliveries, !.faults = 0]

InitMeta == Start({MetaFeed})

\* no item of these files has a body: none is handed to the filter and no
\* call of onclosetag suspends
NextMeta ==
    \/ CountPosts
    \/ \E name \in feed.tags, attributes \in feed.attributes : OpenTag(name, attributes)
    \/ \E name \in feed.tags : CloseTag(name)
    \/ \E text \in feed.texts : Text(text)
    \/ \E text \in feed.cdatas : CData(text)
    \/ OnEnd
    \/ Finish

SpecMeta == InitMeta /\ [][NextMeta]_vars

\* ---- categories and tags (SpecCategory) ----
\* bounds: category elements in an item, and text and CDATA tokens between
\* two open('item') tokens, of a file of SpecCategory
MaxCategories == 3
MaxCategoryDeliveries == 2

\* <category domain="..." nicename="...">: the two domains the handler
\* routes and one it does not
CategoryDomains == {"category", "post_tag", "nav_menu"}

\* the files of SpecCategory: items and category elements, nested as the
\* export format does, the name given as text or as CDATA
CategoryFeed ==
    [ExportFeed EXCEPT !.tags = {"item", "category"},
                       !.attributes = {[domain |-> d, nicename |-> "n"] : d \in CategoryDomains},
                       !.texts = {"News"}, !.cdatas = {"Tech"},
                       !.deliveries = MaxCategoryDeliveries, !.faults = 0,
                       !.counted = {"category"}, !.elements = MaxCategories]

InitCategory == Start({CategoryFeed})

\* no item of these files has a title and a body: none is handed to the
\* filter and no call of onclosetag suspends
NextCategory ==
    \/ CountPosts
    \/ \E name \in feed.tags, attributes \in feed.attributes : OpenTag(name, attributes)
    \/ \E name \in feed.tags : CloseTag(name)
    \/ \E text \in feed.texts : Text(text)
    \/ \E text \in feed.cdatas : CData(text)
    \/ OnEnd
    \/ Finish

SpecCategory == InitCategory /\ [][NextCategory]_vars

\* ---- POST /api/upload (SpecUpload) ----
\* A JSON value of the request's options object: absent, a boolean, a
\* number (a ratio of integers) or a string.
Absent      == [kind |-> "undefined"]
JsonBool(b) == [kind |-> "boolean", value |-> b]
JsonNum(r)  == [kind |-> "number", value |-> r]
JsonString  == [kind |-> "string"]

IsInt(r) == r.num % r.den = 0

\* z.boolean().default(d)
ZBoolean(v, d) ==
    IF v.kind = "undefined" THEN [ok |-> TRUE, value |-> d]
    ELSE IF v.kind = "boolean" THEN [ok |-> TRUE, value |-> v.value]
    ELSE [ok |-> FALSE, value |-> d]

\* minWordCount: z.number().int().min(0).default(700)
DefaultMinWordCount == 700

ZMinWordCount(v) ==
    IF v.kind = "undefined" THEN [ok |-> TRUE, value |-> DefaultMinWordCount]
    ELSE IF v.kind = "number" /\ IsInt(v.value) /\ ~RatioLess(v.value, Ratio(0, 1))
    THEN [ok |-> TRUE, value |-> v.value.num \div v.value.den]
    ELSE [ok |-> FALSE, value |-> DefaultMinWordCount]

ZMinRatio_NoMax(v) ==
    IF v.kind = "undefined" THEN [ok |-> TRUE, value |-> Ratio(1, 2)]
    ELSE IF v.kind = "number" /\ ~RatioLess(v.value, Ratio(0, 1))
    THEN [ok |-> TRUE, value |-> v.value]
    ELSE [ok |-> FALSE, value |-> Ratio(1, 2)]

\* minTextToHtmlRatio: z.number().min(0).max(1).default(0.5)
ZMinRatio(v) ==
    IF v.kind = "undefined" THEN [ok |-> TRUE, value |-> Ratio(1, 2)]
    ELSE IF /\ v.kind = "number"
            /\ ~RatioLess(v.value, Ratio(0, 1))
            /\ ~RatioLess(Ratio(1, 1), v.value)
    THEN [ok |-> TRUE, value |-> v.value]
    ELSE [ok |-> FALSE, value |-> Ratio(1, 2)]

\* conversionOptionsSchema.parse(req.body.options ? JSON.parse(req.body.options) : {})
\* raw is NoOptions (no options field), Malformed (not JSON) or the object
\* the field parses to; ok is false where parse or JSON.parse throws
NoOptions == [json |-> "absent"]
Malformed == [json |-> "malformed"]

\* the keys of conversionOptionsSchema that the filter reads, and the four
\* keys of FilteringOptions that the schema does not have
SchemaKeys == {"filterLowValueContent", "minWordCount", "minTextToHtmlRatio",
               "excludeEmbedOnlyPosts", "excludeDraftPosts", "excludeNoImages"}
PageToggleKeys == {"excludeTagPages", "excludeArchivePages", "excludeAuthorPages",
                   "excludePaginatedPages"}

\* a z.object() schema drops the keys it does not declare: the parsed
\* options have no page-type toggle, and the filter reads each as falsy
ParseOptions(raw) ==
    LET obj       == IF raw = NoOptions
                     THEN [k \in SchemaKeys \cup PageToggleKeys |-> Absent]
                     ELSE raw
        filter    == ZBoolean(obj.filterLowValueContent, FALSE)
        minWords  == ZMinWordCount(obj.minWordCount)
        minRatio  == ZMinRatio(obj.minTextToHtmlRatio)
        embedOnly == ZBoolean(obj.excludeEmbedOnlyPosts, TRUE)
        drafts    == ZBoolean(obj.excludeDraftPosts, TRUE)
        noImages  == ZBoolean(obj.excludeNoImages, FALSE)
    IN  IF raw = Malformed THEN [ok |-> FALSE, value |-> Null]
        ELSE [ok    |-> /\ filter.ok /\ minWords.ok /\ minRatio.ok
                        /\ embedOnly.ok /\ drafts.ok /\ noImages.ok,
              value |-> FilteringOptions(filter.value, minWords.value, minRatio.value,
                            [excludeEmbedOnlyPosts |-> embedOnly.value,
                             excludeDraftPosts     |-> drafts.value,
                             excludeNoImages       |-> noImages.value,
                             excludeTagPages       |-> FALSE,
                             excludeArchivePages   |-> FALSE,
                             excludeAuthorPages    |-> FALSE,
                             excludePaginatedPages |-> FALSE])]

\* the values a request gives the filtering options: for the thresholds
\* and the switch valid and invalid ones, for a toggle nothing or the
\* opposite of its default
RawFilter   == {Absent, JsonBool(TRUE), JsonBool(FALSE), JsonString}
RawMinWords == {Absent, JsonString, JsonNum(Ratio(1, 2))}
                   \cup {JsonNum(Ratio(n, 1)) : n \in -1..MaxMinWordCount}
RawMinRatio == {Absent, JsonString}
                   \cup {JsonNum(Ratio(k, RatioSteps)) : k \in -1..(RatioSteps + 1)}

Requests ==
    [file    : BOOLEAN,
     options : {NoOptions, Malformed}
                   \cup [json : {"object"},
                         filterLowValueContent : RawFilter,
                         minWordCount : RawMinWords,
                         minTextToHtmlRatio : RawMinRatio,
                         excludeEmbedOnlyPosts : {Absent, JsonBool(FALSE)},
                         excludeDraftPosts     : {Absent, JsonBool(FALSE)},
                         excludeNoImages       : {Absent, JsonBool(TRUE)},
                         excludeTagPages       : {Absent, JsonBool(TRUE)},
                         excludeArchivePages   : {Absent, JsonBool(TRUE)},
                         excludeAuthorPages    : {Absent, JsonBool(TRUE)},
                         excludePaginatedPages : {Absent, JsonBool(TRUE)}]]

\* storage.createConversion({filename, status: 'processing', totalPosts: 0,
\*                           processedPosts: 0, options, createdAt})
createConversion == [status |-> "processing", processedPosts |-> 0, totalPosts |-> 0]

InitUpload ==
    /\ fpost = Null /\ fhtml = "" /\ fopts = Null /\ fresult = Null /\ fpc = "idle"
    /\ request \in Requests /\ response = Null
    /\ feed = ExportFeed
    /\ options = Null
    /\ currentPost = Null /\ currentTag = "" /\ inItem = FALSE
    /\ inPostMeta = FALSE /\ currentMetaKey = "" /\ currentMetaValue = ""
    /\ currentCategory = Null /\ postCount = 0 /\ processedCount = 0
    /\ pending = <<>>
    /\ stored = 0
    /\ conversion = Null
    /\ phase = "idle"
    /\ path = <<>> /\ span = Null
    /\ handed = Null
    /\ stats = [items |-> 0, complete |-> 0, deliveries |-> 0, elements |-> 0, sinkErrors |-> 0,
                faults |-> 0]

\* app.post('/api/upload', ...): the handler up to the call of
\* processXmlFile, which runs to its first await (the counting pass)
Upload ==
    /\ phase = "idle" /\ request # Null /\ response = Null
    /\ LET parsed == ParseOptions(request.options) IN
       IF ~request.file
       THEN /\ response' = [status |-> 400, message |-> "No file uploaded"]
            /\ UNCHANGED <<options, conversion, phase>>
       ELSE IF ~parsed.ok
       THEN /\ response' = [status |-> 400, message |-> "Invalid conversion options"]
            /\ UNCHANGED <<options, conversion, phase>>
       ELSE /\ conversion' = createConversion
            /\ response' = [status |-> 201, message |-> "Conversion started successfully"]
            /\ options' = parsed.value
            /\ phase' = "counting"
    /\ UNCHANGED <<filterVars, request, feed, currentPost, currentTag, inItem, inPostMeta,
                   currentMetaKey, currentMetaValue, currentCategory, postCount,
                   processedCount, pending, stored, path, span, handed, stats>>

NextUpload == Upload

SpecUpload == InitUpload /\ [][NextUpload]_vars

\* ---- the token source signals an error (SpecFail) ----
\* countPosts: parser.onerror = (err) => { reject(err) }.  The await of
\* countPosts throws and processXmlFile goes on in its catch block.
CountError ==
    /\ phase = "counting"
    /\ phase' = "rejected"
    /\ UNCHANGED <<filterVars, request, response, options, feed, currentPost, currentTag, inItem, inPostMeta,
                   currentMetaKey, currentMetaValue, currentCategory, postCount,
                   processedCount, pending, stored, conversion, path, span, handed, stats>>

\* the second pass: parser.onerror = (err) => reject(err).  The promise
\* processXmlFile awaits is rejected; no token follows.
ParseError ==
    /\ phase = "parsing"
    /\ phase' = "rejected"
    /\ handed' = NoCall
    /\ UNCHANGED <<filterVars, request, response, options, feed, currentPost, currentTag, inItem, inPostMeta,
                   currentMetaKey, currentMetaValue, currentCategory, postCount,
                   processedCount, pending, stored, conversion, path, span, stats>>

Fail_StatusKept ==
    /\ phase = "rejected"
    /\ SetHandlerState(ResumeAll(HandlerState))
    /\ phase' = "failed"
    /\ handed' = NoCall
    /\ UNCHANGED <<filterVars, request, response, options, feed, inPostMeta, currentMetaKey, currentMetaValue,
                   currentCategory, postCount, stored, path, span, stats>>

\* catch (error) { await storage.updateConversionStatus(conversionId, 'failed') }
\* The calls of onclosetag suspended before the error run to their end
\* first: they were queued before the rejection was.
Fail ==
    /\ phase = "rejected"
    /\ SetHandlerState([ResumeAll(HandlerState) EXCEPT
                           !.conversion = updateConversionStatus(@, "failed")])
    /\ phase' = "failed"
    /\ handed' = NoCall
    /\ UNCHANGED <<filterVars, request, response, options, feed, inPostMeta, currentMetaKey, currentMetaValue,
                   currentCategory, postCount, stored, path, span, stats>>

\* the files of SpecFail: those of Spec that nest as the export format does
FailFeed == [ExportFeed EXCEPT !.faults = 0]

InitFail == Start({FailFeed})

NextFail == Next \/ CountError \/ ParseError \/ Fail

\* the catch block is the continuation of a rejected await: the event loop
\* runs it once the rejection is queued
SpecFail == InitFail /\ [][NextFail]_vars /\ WF_vars(Fail)

\* ---- the temporary file is removed (SpecCleanup) ----
\* await fs.unlink(filePath), the last statement of the try block, after
\* 'completed' has been written: the file is removed
Unlink ==
    /\ phase = "done"
    /\ phase' = "cleaned"
    /\ UNCHANGED <<filterVars, request, response, options, feed, currentPost, currentTag, inItem, inPostMeta,
                   currentMetaKey, currentMetaValue, currentCategory, postCount,
                   processedCount, pending, stored, conversion, path, span, handed, stats>>

\* fs.unlink rejects (the file is gone, or may not be removed): the await
\* throws inside the try block and processXmlFile goes on in its catch
\* block, as after an error of the token source
UnlinkError ==
    /\ phase = "done"
    /\ phase' = "rejected"
    /\ UNCHANGED <<filterVars, request, response, options, feed, currentPost, currentTag, inItem, inPostMeta,
                   currentMetaKey, currentMetaValue, currentCategory, postCount,
                   processedCount, pending, stored, conversion, path, span, handed, stats>>

NextCleanup == NextFail \/ Unlink \/ UnlinkError

SpecCleanup == InitFail /\ [][NextCleanup]_vars

\* ---- the storage rejects a post (SpecSink) ----
\* bound: calls of storage.createMarkdownPost that reject in a run
MaxSinkErrors == 1

\* the files of SpecSink: those of SpecFail, with a storage that may reject
SinkFeed == [FailFeed EXCEPT !.sinkErrors = MaxSinkErrors]

InitSink == Start({SinkFeed})

NextSink == Next \/ \E name \in feed.tags : CloseTagSinkError(name)

\* the statements after the awaited promise of the second pass are its
\* continuation: the event loop runs them once onend has resolved it
SpecSink == InitSink /\ [][NextSink]_vars /\ WF_vars(Finish)

-----------------------------------------------------------------------------
(* Properties of the content filtering module.                              *)

Decided == fpc = "decided"
\* the measurements of the body drawn
BodyWords      == Measured(fhtml).wordCount
BodyRatio      == Measured(fhtml).textToHtmlRatio
BodyHasImages  == Measured(fhtml).hasImages
BodyEmbedHeavy == Measured(fhtml).isEmbedContent
IsDraft == fpost["wp:status"] = "draft"
\* the analysis of the inputs of the decision
Analysis == analyzeContentQuality(fhtml, fopts, fpost)
AllPageToggles ==
    /\ fopts.excludeTagPages /\ fopts.excludeArchivePages
    /\ fopts.excludeAuthorPages /\ fopts.excludePaginatedPages
\* the exclusion toggle of page type t
ToggleOf(t) ==
    CASE t = "tag"       -> fopts.excludeTagPages
      [] t = "archive"   -> fopts.excludeArchivePages
      [] t = "author"    -> fopts.excludeAuthorPages
      [] t = "paginated" -> fopts.excludePaginatedPages
      [] OTHER           -> FALSE

\* C1: when filterLowValueContent is false, shouldProcessPost accepts the post
\* whatever the body, the post's metadata and the other options are, and
\* returns qualityMetrics = null and no skip reason.
C1_FilterOffAcceptsAll ==
    (Decided /\ ~fopts.filterLowValueContent) =>
        /\ fresult.shouldProcess
        /\ fresult.qualityMetrics = Null
        /\ fresult.skipReason = NoValue

\* a draft tag page with an embed-only body, every exclusion on, filtering off
C1_Witness ==
    /\ Decided /\ ~fopts.filterLowValueContent
    /\ fpost = draftTagPage /\ BodyEmbedHeavy
    /\ fopts.excludeDraftPosts /\ fopts.excludeEmbedOnlyPosts /\ AllPageToggles
    /\ fopts.minWordCount = MaxMinWordCount
    /\ fresult.shouldProcess

\* C2: with filtering on, the post is accepted iff its metrics are not
\* low-value and not (excludeDraftPosts and status 'draft'); a draft that is
\* not low-value is rejected as exactly 'draft post'; a low-value draft is
\* rejected with the low-value or system-page reason, never 'draft post';
\* with excludeDraftPosts off a draft that is not low-value is accepted.
C2_DraftAfterQuality ==
    (Decided /\ fopts.filterLowValueContent) =>
        /\ fresult.shouldProcess <=>
              (~Analysis.isLowValue /\ ~(fopts.excludeDraftPosts /\ IsDraft))
        /\ (IsDraft /\ ~Analysis.isLowValue /\ fopts.excludeDraftPosts) =>
              (~fresult.shouldProcess /\ fresult.skipReason = "draft post")
        /\ (IsDraft /\ Analysis.isLowValue) =>
              /\ ~fresult.shouldProcess
              /\ fresult.skipReason # "draft post"
              /\ \/ includes(fresult.skipReason, "low-value content")
                 \/ includes(fresult.skipReason, "system-generated")
        /\ (IsDraft /\ ~Analysis.isLowValue /\ ~fopts.excludeDraftPosts) =>
              fresult.shouldProcess

\* a draft whose body passes is rejected as 'draft post'
C2_Witness ==
    /\ Decided /\ fopts.filterLowValueContent /\ fopts.excludeDraftPosts
    /\ fpost = draftPost /\ ~Analysis.isLowValue /\ fopts.minWordCount > 0
    /\ fresult.skipReason = "draft post"

\* C3: when the post is rejected as low-value, the skip reason is
\* 'system-generated <pageType> page' iff the classifier flags the post as a
\* system page (whatever made it low-value, whether or not the toggle of that
\* page type is on), and otherwise the 'low-value content' text with the word
\* count and the ratio; with the four page toggles on, a tag, archive, author
\* or paginated page is rejected under its own page type even when the body
\* passes every quality threshold.
C3_SkipReasonNamesPageType ==
    (Decided /\ fopts.filterLowValueContent) =>
        LET check == Classified(fpost)
        IN  /\ Analysis.isLowValue =>
                /\ ~fresult.shouldProcess
                /\ check.isSystemPage <=>
                      (fresult.skipReason = "system-generated " \o check.pageType \o " page")
                /\ ~check.isSystemPage =>
                      /\ includes(fresult.skipReason, "low-value content")
                      /\ includes(fresult.skipReason,
                                  "words: " \o IntToString(BodyWords) \o ",")
                      /\ includes(fresult.skipReason,
                                  "ratio: " \o ToFixed2(BodyRatio))
            /\ (AllPageToggles /\ check.isSystemPage) =>
                /\ ~fresult.shouldProcess
                /\ fresult.skipReason = "system-generated " \o check.pageType \o " page"

\* an author page, its toggle off, low-value by its word count alone: the
\* reason still names the page type
C3_Witness ==
    /\ Decided /\ fopts.filterLowValueContent
    /\ fpost = authorPage /\ ~fopts.excludeAuthorPages
    /\ BodyWords < fopts.minWordCount
    /\ fresult.skipReason = "system-generated author page"

\* C4: isLowValue is true iff wordCount < minWordCount, or ratio <
\* minTextToHtmlRatio (both strict), or excludeEmbedOnlyPosts and the body is
\* embed-heavy, or excludeNoImages and the body has no image, or a post is
\* supplied that the classifier flags as a system page of a type whose
\* exclusion toggle is on.
C4_LowValueIff ==
    fpc = "analyzed" =>
        LET check == IF fpost = Null THEN NotSystemPage ELSE Classified(fpost)
        IN  fresult.isLowValue <=>
                \/ BodyWords < fopts.minWordCount
                \/ RatioLess(BodyRatio, fopts.minTextToHtmlRatio)
                \/ (fopts.excludeEmbedOnlyPosts /\ BodyEmbedHeavy)
                \/ (fopts.excludeNoImages /\ ~BodyHasImages)
                \/ (check.isSystemPage /\ ToggleOf(check.pageType))

\* a body with exactly minWordCount words and exactly the minimum ratio is
\* not low-value
C4_Witness ==
    /\ fpc = "analyzed" /\ fpost = regularPost
    /\ BodyWords = fopts.minWordCount /\ fopts.minWordCount > 0
    /\ ~RatioLess(BodyRatio, fopts.minTextToHtmlRatio)
    /\ ~RatioLess(fopts.minTextToHtmlRatio, BodyRatio)
    /\ ~fresult.isLowValue

\* ---- the classifier's signals, as the claims word them ----
PostType  == fpost["wp:post_type"]
PostName  == fpost["wp:post_name"]
PostTitle == fpost["title"]
PostLink  == fpost["link"]
TagSignal ==
    \/ includes(toLowerCase(PostTitle), "tag:") \/ includes(toLowerCase(PostTitle), "category:")
    \/ includes(PostName, "tag-") \/ includes(PostName, "category-")
ArchiveSignal ==
    \/ includes(toLowerCase(PostTitle), "archive") \/ includes(PostName, "archive")
    \/ (includes(PostLink, "/20") /\ (includes(PostLink, "/0") \/ includes(PostLink, "/1")))
AuthorSignal ==
    \/ includes(toLowerCase(PostTitle), "author:") \/ includes(PostName, "author-")
    \/ includes(PostLink, "/author/")
PaginatedSignal ==
    \/ includes(PostLink, "/page/")
    \/ includes(PostName, "-page-")
    \/ MatchesDashDigitsAtEnd(PostName)
    \/ MatchesPageDigits(PostTitle)
EarlierRuleMatched == PostType = "page" /\ (TagSignal \/ ArchiveSignal \/ AuthorSignal)

\* C5: the paginated rule is not gated on the post type: a post of any type
\* with a paginated signal is {isSystemPage: true, pageType: 'paginated'}
\* unless an earlier rule matched; the tag, archive and author rules are
\* gated: a post whose type is not 'page' is never 'tag', 'archive' or 'author'.
C5_PaginatedNotGated ==
    fpc = "classified" =>
        /\ (PaginatedSignal /\ ~EarlierRuleMatched) =>
              fresult = [isSystemPage |-> TRUE, pageType |-> "paginated"]
        /\ PostType # "page" => fresult.pageType \notin {"tag", "archive", "author"}

\* a regular post whose title and link carry tag and author signals and whose
\* slug ends in -<digits>
C5_Witness ==
    /\ fpc = "classified" /\ PostType = "post"
    /\ TagSignal /\ AuthorSignal
    /\ PostName = "post-2" /\ ~includes(PostLink, "/page/") /\ ~MatchesPageDigits(PostTitle)
    /\ fresult.pageType = "paginated"

\* C6: the rules apply in the priority tag > archive > author > paginated and
\* the first match wins; a post matching no rule is {isSystemPage: false,
\* pageType: null}; isSystemPage is true exactly when pageType is non-null.
C6_RulePriority ==
    fpc = "classified" =>
        LET page == PostType = "page"
        IN  /\ (page /\ TagSignal) => fresult.pageType = "tag"
            /\ (page /\ ~TagSignal /\ ArchiveSignal) => fresult.pageType = "archive"
            /\ (page /\ ~TagSignal /\ ~ArchiveSignal /\ AuthorSignal) =>
                  fresult.pageType = "author"
            /\ (~EarlierRuleMatched /\ PaginatedSignal) => fresult.pageType = "paginated"
            /\ (~EarlierRuleMatched /\ ~PaginatedSignal) =>
                  fresult = [isSystemPage |-> FALSE, pageType |-> NoValue]
            /\ fresult.isSystemPage <=> fresult.pageType # NoValue

\* a page carrying the signals of all four rules is a tag page
C6_Witness ==
    /\ fpc = "classified" /\ PostType = "page"
    /\ TagSignal /\ ArchiveSignal /\ AuthorSignal /\ PaginatedSignal
    /\ fresult = [isSystemPage |-> TRUE, pageType |-> "tag"]

-----------------------------------------------------------------------------
(* Properties of the streaming pass.                                        *)

\* the strings of a sequence, joined in order
RECURSIVE Concat(_)
Concat(seq) == IF seq = <<>> THEN "" ELSE Head(seq) \o Concat(Tail(seq))

\* the last step handed a record to shouldProcessPost at the close('item')
\* of an item span that every token since its open('item') fitted
HandedAtSpanClose == handed # Null /\ handed.fits /\ handed.span # Null

\* the stream has ended and the run has recorded its outcome
RunDone == phase = "done"

\* every token delivered so far fitted the export format's nesting
WellFormedSoFar == stats.faults = 0

(* C7: within one item span the character data delivered to content:encoded *)
(* is appended in arrival order and nothing overwrites an earlier fragment: *)
(* the body handed to shouldProcessPost at close('item') is the             *)
(* concatenation, in order, of the fragments the span delivered.            *)
C7_CDataAppended ==
    (HandedAtSpanClose /\ handed.span.frags # <<>>)
        => handed.htmlContent = Concat(handed.span.frags)

\* '<p>A</p>' then '<p>B</p>' in one item was handed over as '<p>A</p><p>B</p>'
C7_Witness ==
    /\ HandedAtSpanClose
    /\ handed.span.frags = <<"<p>A</p>", "<p>B</p>">>
    /\ handed.htmlContent = "<p>A</p><p>B</p>"

(* C8: in a well-formed stream every complete item span increments          *)
(* processedCount exactly once, accepted or rejected, so that when the run  *)
(* has ended processedCount is the number of complete item spans.           *)
C8_CompleteCountedOnce ==
    (RunDone /\ WellFormedSoFar) => processedCount = stats.complete

(* C9: close('item') of an item span whose record lacks a title or a body   *)
(* increments processedCount by one.                                        *)
C9_IncompleteCounted ==
    [][(/\ WellFormedSoFar
        /\ path = <<"item">> /\ path' = <<>>
        /\ span # Null /\ ~HasRequiredFields(span.post))
            => processedCount' = processedCount + 1]_vars

(* C10: a record is emitted only if it is complete.  Whatever the token     *)
(* stream, the record handed to shouldProcessPost has a title and a body,   *)
(* the body is content:encoded, else content, the post created in storage   *)
(* has both, the item span closed by the hand-over delivered both, and the  *)
(* steps that end the stream hand over and store nothing.                   *)
EmittedComplete ==
    handed # Null =>
        /\ handed.post.bag["title"] # ""
        /\ handed.htmlContent # ""
        /\ handed.htmlContent =
               (IF handed.post.bag["content:encoded"] # ""
                THEN handed.post.bag["content:encoded"]
                ELSE handed.post.bag["content"])
        /\ handed.created # Null =>
               (handed.created.title # "" /\ handed.created.html # "")
        /\ HandedAtSpanClose =>
               /\ handed.span.post.bag["title"] # ""
               /\ (\/ handed.span.post.bag["content:encoded"] # ""
                   \/ handed.span.post.bag["content"] # "")

EndEmitsNothing ==
    phase' # "parsing" => (stored' = stored /\ handed' = Null)

ItemOpen == \E i \in 1..Len(path) : path[i] = "item"

(* C11: no record outlives its item span.  In a well-formed stream, once an *)
(* item has been closed and until the next open('item'), inItem is false    *)
(* and no record is held, whether the item was complete or not, accepted or *)
(* rejected.                                                                *)
C11_NoRecordOutsideSpan ==
    (phase = "parsing" /\ WellFormedSoFar /\ ~ItemOpen)
        => (~inItem /\ currentPost = Null)

(* C12: a close('item') that arrives while no item span is open, directly   *)
(* after the close('item') of a finalized item included, is ignored: it     *)
(* calls shouldProcessPost for no record, stores nothing and leaves         *)
(* processedCount as it is.                                                 *)
C12_StrayCloseIgnored ==
    [][(CloseTag("item") /\ ~ItemOpen)
            => (handed' = Null /\ stored' = stored /\ processedCount' = processedCount)]_vars

(* C13: when the suspended part of an earlier close('item') runs while a    *)
(* later item is in progress, it leaves that item's record, inItem and      *)
(* currentTag as they are.                                                  *)
C13_PendingLeavesLaterItem ==
    [][(ChunkEnd /\ span # Null)
            => (currentPost' = currentPost /\ inItem' = inItem /\ currentTag' = currentTag)]_vars

(* C14: when the token source signals an error, in the counting pass or   *)
(* in the extraction pass, the conversion's status eventually becomes       *)
(* 'failed', and from the error on it is never 'completed'.                 *)
Errored == phase \in {"rejected", "failed"}

C14_ErrorFails ==
    /\ (phase = "rejected") ~> (conversion.status = "failed")
    /\ [](Errored => conversion.status # "completed")
    /\ [](phase = "failed" => conversion.status = "failed")

\* an error in the extraction pass, after a post was stored, has been
\* recorded as a failure
C14_Witness ==
    phase = "failed" /\ conversion.status = "failed" /\ stored > 0
(* C15: a request whose filtering thresholds are invalid (minWordCount    *)
(* negative or not an integer, minTextToHtmlRatio outside [0,1]) is         *)
(* answered with 400, creates no conversion record and does not start       *)
(* processXmlFile; whenever processXmlFile has been started its thresholds  *)
(* are in range, so none is found invalid while items are processed.        *)
IsNumber(v) == v.kind = "number"

BadThresholds(raw) ==
    /\ raw.json = "object"
    /\ \/ /\ IsNumber(raw.minWordCount)
          /\ \/ raw.minWordCount.value.num < 0
             \/ raw.minWordCount.value.num % raw.minWordCount.value.den # 0
       \/ /\ IsNumber(raw.minTextToHtmlRatio)
          /\ \/ raw.minTextToHtmlRatio.value.num < 0
             \/ raw.minTextToHtmlRatio.value.num > raw.minTextToHtmlRatio.value.den

ThresholdsInRange(o) ==
    /\ o.minWordCount \in Nat
    /\ o.minTextToHtmlRatio.num >= 0
    /\ o.minTextToHtmlRatio.num <= o.minTextToHtmlRatio.den

ProcessingStarted == phase # "idle"

C15_InvalidOptionsRejectedEarly ==
    /\ (request # Null /\ response # Null /\ BadThresholds(request.options))
           => (response.status = 400 /\ conversion = Null /\ ~ProcessingStarted)
    /\ (request # Null /\ ProcessingStarted) => ThresholdsInRange(options)

\* a request with a file and a ratio above 1 has been answered
C15_Witness ==
    /\ request # Null /\ response # Null /\ request.file
    /\ request.options.json = "object"
    /\ IsNumber(request.options.minTextToHtmlRatio)
    /\ request.options.minTextToHtmlRatio.value.num > request.options.minTextToHtmlRatio.value.den
    /\ ~IsNumber(request.options.minWordCount)
    /\ response.status = 400
-----------------------------------------------------------------------------
(* Properties of the measuring functions (SpecMeasure).                     *)

MeasureDone == fpc = "measured"

(* C16: calculateTextToHtmlRatio returns a value in [0,1] for every string *)
(* (the text left after the tags are stripped is never longer than the      *)
(* string), and exactly 0, with no division by zero, for the empty string.  *)
C16_RatioInUnitInterval ==
    MeasureDone =>
        /\ fresult.textToHtmlRatio.den > 0
        /\ fresult.textToHtmlRatio.num >= 0
        /\ fresult.textToHtmlRatio.num <= fresult.textToHtmlRatio.den
        /\ fresult.textToHtmlRatio.num <= Len(fhtml)
        /\ (fhtml = "" => fresult.textToHtmlRatio.num = 0)

\* the empty string has been measured
C16_Witness ==
    MeasureDone /\ fhtml = "" /\ fresult.textToHtmlRatio = Ratio(0, 1)

\* the body has an opening tag named iframe, embed or object, in any case
HasEmbedElement(html) ==
    \E name \in {"<iframe", "<embed", "<object"} :
        \E i \in 1..Len(html) :
            /\ i + Len(name) - 1 <= Len(html)
            /\ toLowerCase(SubSeq(html, i, i + Len(name) - 1)) = name
            /\ \E j \in (i + Len(name))..Len(html) : Char(html, j) = ">"

(* C17: isEmbedHeavy(html) is true iff the body has an iframe, embed or    *)
(* object element and is shorter than 1000 characters: never for a body     *)
(* without such an element, never for a body of 1000 characters or more.    *)
C17_EmbedHeavyIff ==
    MeasureDone => (fresult.hasEmbeds <=> (HasEmbedElement(fhtml) /\ Len(fhtml) < 1000))

\* a body of exactly 1000 characters with an iframe has been measured
C17_Witness ==
    MeasureDone /\ HasEmbedElement(fhtml) /\ Len(fhtml) = 1000 /\ ~fresult.hasEmbeds

\* position i of s lies in a match of /<[^>]*>/: between a '<' and the
\* first '>' after it
InTag(s, i) ==
    \E p \in 1..i :
        /\ Char(s, p) = "<"
        /\ \A k \in (p + 1)..(i - 1) : Char(s, k) # ">"
        /\ \E q \in i..Len(s) : q > p /\ Char(s, q) = ">"

\* position i of s is part of a word: a word character outside the tags
InWord(s, i) == IsWordChar(Char(s, i)) /\ ~InTag(s, i)

\* the maximal runs of word characters that tags, punctuation and white
\* space separate
Words(s) == {i \in 1..Len(s) : InWord(s, i) /\ (i = 1 \/ ~InWord(s, i - 1))}

(* C18: countWords counts the non-empty tokens left when every tag and     *)
(* every punctuation character has become white space: a tag separates the  *)
(* words on its two sides and adds no word; countWords('<p>Hello            *)
(* world</p>') = 2 and countWords('<div><h1>Test</h1><p>One two             *)
(* three</p></div>') = 4.                                                   *)
C18_WordsSeparatedByTags ==
    MeasureDone =>
        /\ fresult.wordCount = Cardinality(Words(fhtml))
        /\ (fhtml = "<p>Hello world</p>" => fresult.wordCount = 2)
        /\ (fhtml = "<div><h1>Test</h1><p>One two three</p></div>" => fresult.wordCount = 4)

\* two words with nothing but a tag between them have been counted as two
C18_Witness ==
    /\ MeasureDone
    /\ fhtml = "<div><h1>Test</h1><p>One two three</p></div>"
    /\ fresult.wordCount = 4
-----------------------------------------------------------------------------
(* Properties of the custom fields (SpecMeta).                              *)

\* the members of a sequence
Range(q) == {q[i] : i \in 1..Len(q)}

\* a record is in progress before and after the step
RecordKept == currentPost # Null /\ currentPost' # Null

\* the pairs the step adds to the record's custom fields, and those it removes
Added   == currentPost'.custom_fields \ currentPost.custom_fields
Removed == currentPost.custom_fields \ currentPost'.custom_fields

\* a pair is written only with a key and a value the element now closing
\* has delivered, both non-empty; it replaces the pair of the same key
CommitsWhatWasSeen ==
    (CloseTag("wp:postmeta") /\ RecordKept /\ span # Null) =>
        /\ \A f \in Added :
              /\ f[1] # "" /\ f[2] # ""
              /\ f[1] \in {trim(k) : k \in Range(span.keys)}
              /\ f[2] \in Range(span.values)
        /\ Cardinality(Added) <= 1
        /\ \A f \in Removed : \E g \in Added : g[1] = f[1]
        /\ \A f, g \in currentPost'.custom_fields : f[1] = g[1] => f = g

\* no other handler writes into the custom fields of a record
OnlyAtClose ==
    (RecordKept /\ currentPost'.custom_fields # currentPost.custom_fields)
        => (CloseTag("wp:postmeta") \/ OpenTag("item", NoAttributes))

(* C19: a key/value pair is written into the record's custom fields only   *)
(* at the close of the post-meta element and only if the key and the value  *)
(* seen inside that element are both non-empty; key and value are reset at  *)
(* every open of a post-meta element, so nothing of an earlier element is   *)
(* written with a later one; a repeated key keeps the last value written.   *)
C19_MetaCommittedAtClose ==
    /\ [][CommitsWhatWasSeen]_vars
    /\ [][OnlyAtClose]_vars
    /\ [][OpenTag("wp:postmeta", NoAttributes)
              => (currentMetaKey' = "" /\ currentMetaValue' = "")]_vars

\* the second post-meta element of an item has written the pair k -> w
C19_Witness ==
    /\ phase = "parsing" /\ path = <<"item">> /\ span # Null /\ currentPost # Null
    /\ span.keys = <<"k">> /\ span.values = <<"w">>
    /\ stats.deliveries = MaxMetaDeliveries
    /\ currentPost.custom_fields = {<<"k", "w">>}

\* a post-meta element is open in the document
MetaOpen == \E i \in 1..Len(path) : path[i] = "wp:postmeta"

(* C20: inPostMeta is set only by the open of a post-meta element and is   *)
(* cleared by every matching close of it, also when no record is in         *)
(* progress: once the element has closed, no later text is taken as         *)
(* post-meta text.                                                          *)
C20_MetaFlagFollowsElement ==
    (phase = "parsing" /\ WellFormedSoFar) => (inPostMeta <=> MetaOpen)
-----------------------------------------------------------------------------
(* Properties of the categories and tags (SpecCategory).                    *)

\* a category element of the open item closes, a record being in progress
CategoryCloses ==
    /\ CloseTag("category") /\ path = <<"item", "category">> /\ span # Null
    /\ RecordKept

(* C21: at close('category') inside an item the scratch category's name is *)
(* appended to the record's categories when the element's domain is         *)
(* 'category', to its tags when it is 'post_tag', to neither otherwise; the *)
(* scratch value is cleared in all three cases; both lists keep the order   *)
(* in which the elements closed.                                            *)
C21_CategoryRoutedByDomain ==
    [][(CategoryCloses /\ currentCategory # Null) =>
          /\ currentPost'.categories =
                 IF span.category.domain = "category"
                 THEN Append(currentPost.categories, currentCategory.name)
                 ELSE currentPost.categories
          /\ currentPost'.tags =
                 IF span.category.domain = "post_tag"
                 THEN Append(currentPost.tags, currentCategory.name)
                 ELSE currentPost.tags
          /\ currentCategory' = Null]_vars

\* a category, then a tag, then an element of another domain have closed in
\* one item
C21_Witness ==
    /\ phase = "parsing" /\ path = <<"item">> /\ span # Null /\ currentPost # Null
    /\ span.category.domain = "nav_menu" /\ currentCategory = Null
    /\ Len(currentPost.categories) = 1 /\ Len(currentPost.tags) = 1
    /\ stats.elements = 3

\* the name the closing element gave: its CDATA if it delivered any, its
\* text otherwise
NameGiven(element) ==
    IF element.cdatas # <<>> THEN element.cdatas[Len(element.cdatas)]
    ELSE Concat(element.texts)

(* C22: the name of a category element comes from its CDATA or from its    *)
(* plain text: an element that delivers only text contributes that text to  *)
(* categories or tags at its close; when a text and a later CDATA arrive,   *)
(* the CDATA is the name routed.                                            *)
C22_NameFromTextOrCData ==
    [][(CategoryCloses /\ span.category.domain \in {"category", "post_tag"}) =>
          LET routed == IF span.category.domain = "category"
                        THEN currentPost'.categories ELSE currentPost'.tags
          IN  routed # <<>> /\ routed[Len(routed)] = NameGiven(span.category)]_vars
-----------------------------------------------------------------------------
(* Properties of the record's fields (Spec).                                *)

\* the scalar fields a record keeps in its property bag
ScalarFields ==
    {"title", "dc:creator", "excerpt:encoded", "wp:post_name", "wp:status",
     "wp:post_type", "link"}

\* the step stays inside one item span
SameSpan == span # Null /\ span' # Null /\ RecordKept

(* C23: for the scalar fields of a record the first non-empty value wins:  *)
(* once such a field is non-empty, a later text or CDATA event for it       *)
(* within the same item span neither replaces it nor appends to it.         *)
C23_FirstValueWins ==
    [][SameSpan =>
          \A f \in ScalarFields :
              currentPost.bag[f] # "" => currentPost'.bag[f] = currentPost.bag[f]]_vars

\* a CDATA token arrives
SomeCData == \E text \in feed.cdatas : CData(text)

(* C24: CDATA events write the record under the same field rules as text   *)
(* events: a title delivered as CDATA inside an item is recorded, so an     *)
(* item whose title and body arrive only as CDATA is complete at its close. *)
C24_CDataTitleRecorded ==
    [][(SomeCData /\ SameSpan /\ path = <<"item", "title">>
            /\ currentPost.bag["title"] = "")
          => currentPost'.bag["title"] # ""]_vars
-----------------------------------------------------------------------------
(* Properties of the archive rule (SpecClassify).                           *)

\* the permalink has a year-like segment followed by a month-like one:
\* /20dd/0d or /20dd/1d
YearMonthSegment(link) ==
    \E i \in 1..(Len(link) - 7) :
        /\ SubSeq(link, i, i + 2) = "/20"
        /\ IsDigit(Char(link, i + 3)) /\ IsDigit(Char(link, i + 4))
        /\ SubSeq(link, i + 5, i + 6) \in {"/0", "/1"}
        /\ IsDigit(Char(link, i + 7))

(* C25: by its permalink alone a page is classified 'archive' only when    *)
(* the permalink has a year-like path segment followed by a month-like one  *)
(* (/20dd/0d or /20dd/1d); a page without an archive signal in title or     *)
(* slug and without such a segment is not classified 'archive'.             *)
C25_ArchiveByYearMonth ==
    (/\ fpc = "classified" /\ PostType = "page"
     /\ ~includes(toLowerCase(PostTitle), "archive") /\ ~includes(PostName, "archive")
     /\ ~YearMonthSegment(PostLink))
        => fresult.pageType # "archive"
-----------------------------------------------------------------------------
(* Properties of the options of a run (SpecUpload).                         *)

\* the value the options object of the request gives the key, a boolean
Sent(key) == request.options[key]

(* C26: the filtering options the caller supplies are the ones the         *)
(* decision engine uses: each of the ten options, the four per-page-type    *)
(* toggles included, reaches shouldProcessPost with the value sent in the   *)
(* upload request.                                                          *)
C26_OptionsAsSent ==
    (request # Null /\ ProcessingStarted /\ request.options.json = "object") =>
        \A key \in (SchemaKeys \cup PageToggleKeys) \ {"minWordCount", "minTextToHtmlRatio"} :
            Sent(key).kind = "boolean" => options[key] = Sent(key).value
-----------------------------------------------------------------------------
(* Properties of the end of a run (SpecCleanup).                            *)

Completed == conversion # Null /\ conversion.status = "completed"

\* a close('item') finalizes a record in this step; it accepts the post
Finalizes == (\E name \in feed.tags : CloseTag(name)) /\ handed' # NoCall
Accepts   == Finalizes /\ handed'.shouldProcess

\* the finalizations so far: counted, or suspended on the storage write
Finalized ==
    processedCount + Cardinality({i \in DOMAIN pending : pending[i] = "created"})

C28_StatusChangesOnce ==
    [][(conversion # Null /\ conversion.status # "processing")
          => conversion'.status = conversion.status]_vars

\* GET /api/conversions/:id/progress: the percentage of the record
Percentage ==
    IF conversion.totalPosts > 0
    THEN (200 * conversion.processedPosts + conversion.totalPosts)
             \div (2 * conversion.totalPosts)
    ELSE 0

(* C29: in every state of a conversion record, 0 <= processedPosts <=      *)
(* totalPosts, for well-formed and malformed token streams alike, and so    *)
(* the percentage of the progress endpoint is in 0..100 (Spec).             *)
C29_ProcessedWithinTotal ==
    conversion # Null =>
        /\ 0 <= conversion.processedPosts
        /\ conversion.processedPosts <= conversion.totalPosts
        /\ Percentage \in 0..100
-----------------------------------------------------------------------------
(* Properties of a run whose storage rejects a post (SpecSink).             *)

SinkFails  == \E name \in feed.tags : CloseTagSinkError(name)
SinkFailed == stats.sinkErrors > 0

(* C30: a failure of the storage while it appends an accepted post does    *)
(* not abort the run: the post is not stored, the item is still counted as  *)
(* processed, the record in progress is released when the suspended call    *)
(* runs on as after a successful append, the run stays in its second pass   *)
(* with status 'processing', and once the file has ended the run is         *)
(* recorded 'completed' with every finalization counted.                    *)
C30_SinkFailureTolerated ==
    /\ [][SinkFails => /\ stored' = stored
                       /\ Finalized' = Finalized + 1
                       /\ pending' = Append(pending, "created")
                       /\ phase' = "parsing"
                       /\ conversion'.status = "processing"]_vars
    /\ [][(SinkFailed /\ ChunkEnd) => /\ processedCount' = Finalized
                                      /\ currentPost' = Null
                                      /\ inItem' = FALSE]_vars
    /\ [](SinkFailed => conversion.status \in {"processing", "completed"})
    /\ [](SinkFailed /\ Completed => conversion.processedPosts = Finalized)
    /\ (SinkFailed /\ phase = "ended") ~> Completed

\* a run of two accepted posts has ended 'completed': the storage rejected
\* one of them, the other is stored, both are counted
C30_Witness ==
    /\ Completed
    /\ stats.sinkErrors = 1
    /\ stored = 1
    /\ conversion.processedPosts = 2
    /\ conversion.totalPosts = 2
====
